---- MODULE Spec2Model ----
(***************************************************************************)
(* A model of the JavaScript binding generator of crates/js:               *)
(*   - the generator (preprocess, import_interface, export_funcs, finish)  *)
(*     as a state machine over the emitted source, kept as a sequence of   *)
(*     chunks;                                                             *)
(*   - the emitted module at run time: loading it, calling a binding, and  *)
(*     the statements of a generated wrapper executed one at a time, with  *)
(*     the calls an imported host function makes back into the module;     *)
(*   - the runtime helpers of js_wrapper.rs as operators over a byte       *)
(*     memory, a bump allocator and the host's text encoder / decoder.     *)
(* Identifiers of the emitted text are abstract: parameter i of a function *)
(* is "parameter i", and is assumed distinct from the wrapper's locals.    *)
(***************************************************************************)
EXTENDS Integers, Sequences, FiniteSets, TLC

VARIABLES
    sig,        \* SpecClassify: the signature handed to the classifier
    cls,        \* SpecClassify: its classification, once computed
    src,        \* Js.src: the emitted source, a sequence of chunks
    phase,      \* position of the generator in the WorldGenerator protocol
    files,      \* Files: the output files pushed by finish
    funcs,      \* the export set handed to export_funcs
    ifaces,     \* the interfaces handed to import_interface so far, in order
    loaded,     \* whether the emitted module has been evaluated by the host
    hooks,      \* names f for which the instance exports cabi_post_f
    mem,        \* linear memory of the instance: address -> byte
    brk,        \* first free address of the instance's allocator
    call,       \* the binding call in progress (frame of the wrapper)
    events,     \* what the call in progress has done so far, in order
    stack,      \* the calls suspended in an export that called back, innermost last
    helper      \* SpecText, SpecList: a runtime helper applied on its own

genVars  == <<src, phase, files, funcs, ifaces>>
instVars == <<loaded, hooks, mem, brk>>
runVars  == <<call, events, stack>>
hlpVars  == <<helper>>
clsVars  == <<sig, cls>>
vars == <<sig, cls, src, phase, files, funcs, ifaces, loaded, hooks, mem, brk, call, events, stack, helper>>

----------------------------------------------------------------------------
(* Bounds *)

MaxSigTypes == 3    \* types (parameters and results) of a signature handed to the classifier
MaxFuncs  == 2      \* functions in the export set handed to export_funcs
MaxTextLen == 2     \* UTF-16 code units of a text handed to encode / decode
MaxListLen == 2     \* elements of a list handed to store_list
MaxIfaces == 2      \* interfaces handed to import_interface
MaxDepth == 1       \* calls suspended in an export that called back into the module

----------------------------------------------------------------------------
(* wit_parser::Type.  Every compound or nominal type (list, record, tuple,  *)
(* variant, option, alias, ...) is the one constructor Type::Id(_).         *)

ScalarTypes ==
    {"Bool", "Char", "Float32", "Float64",
     "S8", "S16", "S32", "S64", "U8", "U16", "U32", "U64"}

Types == ScalarTypes \cup {"String", "Id"}

SeqsUpTo(S, n) == UNION {[1..k -> S] : k \in 0..n}

Anon(t)    == [kind |-> "Anon", tys |-> <<t>>]
Named(tys) == [kind |-> "Named", tys |-> tys]

is_primary_type(val_type) ==
    val_type \in {"Bool", "Char", "Float32", "Float64",
                  "S8", "S16", "S32", "S64", "U8", "U16", "U32", "U64"}

\* the classification loop with the scan of the results left out
is_primary_func_params_only(func) ==
    \A i \in 1..Len(func.params) : is_primary_type(func.params[i])

\* export_funcs, the loop deciding is_primary_func: the parameters are
\* scanned first, then (only if all were primary) the result(s).
is_primary_func(func) ==
    /\ \A i \in 1..Len(func.params) : is_primary_type(func.params[i])
    /\ \A i \in 1..Len(func.results.tys) : is_primary_type(func.results.tys[i])

Classification(func) == IF is_primary_func(func) THEN "Scalar" ELSE "Marshaled"

----------------------------------------------------------------------------
(* SpecClassify: the classifier applied to every signature within bounds.   *)

\* the results a signature of n parameters may have within the bound
ResultsWithin(n) ==
    {Anon(t) : t \in IF n < MaxSigTypes THEN Types ELSE {}}
        \cup {Named(ts) : ts \in SeqsUpTo(Types, MaxSigTypes - n)}

NoSig  == [name |-> "", params |-> <<>>, results |-> Named(<<>>)]
NoCall == [pc |-> 0, status |-> "idle"]   \* no binding call: the module is not loaded
NoHelper == [pc |-> "idle"]

IdleRest ==
    /\ src = <<>> /\ phase = "new" /\ files = <<>> /\ funcs = <<>> /\ ifaces = <<>>
    /\ loaded = FALSE /\ hooks = {} /\ mem = <<>> /\ brk = 0
    /\ call = NoCall /\ events = <<>> /\ stack = <<>> /\ helper = NoHelper

InitClassify ==
    /\ \E n \in 0..MaxSigTypes : \E ps \in [1..n -> Types] : \E rs \in ResultsWithin(n) :
          sig = [name |-> "f", params |-> ps, results |-> rs]
    /\ cls = "Unclassified"
    /\ IdleRest

ClassifyStep ==
    /\ cls = "Unclassified"
    /\ cls' = Classification(sig)
    /\ UNCHANGED <<sig, genVars, instVars, runVars, hlpVars>>

NextClassify == ClassifyStep

SpecClassify == InitClassify /\ [][NextClassify]_vars

AllScalar(func) ==
    /\ \A i \in 1..Len(func.params) : func.params[i] \in ScalarTypes
    /\ \A i \in 1..Len(func.results.tys) : func.results.tys[i] \in ScalarTypes

\* C1: a signature is classified Scalar if and only if every parameter type
\* and every result type (anonymous or named) is one of the twelve scalar
\* kinds; a String or a compound type anywhere yields Marshaled.
C1_ScalarIffAllScalar ==
    cls # "Unclassified" =>
        /\ cls \in {"Scalar", "Marshaled"}
        /\ (cls = "Scalar") <=> AllScalar(sig)

\* a signature with all-scalar parameters and a String result was classified
C1_Witness ==
    /\ cls = "Marshaled"
    /\ Len(sig.params) = 2
    /\ \A i \in 1..Len(sig.params) : sig.params[i] \in ScalarTypes
    /\ sig.results = Anon("String")

----------------------------------------------------------------------------
(* JavaScript values, host text codecs, linear memory and the allocator.    *)

\* a JavaScript value: a string is its sequence of UTF-16 code units
Str(units) == [t |-> "string", v |-> units]
Num(n)     == [t |-> "number", v |-> <<n>>]
Undefined  == [t |-> "undefined", v |-> <<>>]

\* code points of a string as TextEncoder sees it: a surrogate pair is one
\* code point, an unpaired surrogate is replaced by U+FFFD
RECURSIVE CodePoints(_)
CodePoints(units) ==
    IF units = <<>> THEN <<>>
    ELSE LET u == Head(units)
         IN  IF u >= 55296 /\ u <= 56319 /\ Len(units) >= 2
                /\ units[2] >= 56320 /\ units[2] <= 57343
             THEN <<65536 + (u - 55296) * 1024 + (units[2] - 56320)>>
                    \o CodePoints(Tail(Tail(units)))
             ELSE IF u >= 55296 /\ u <= 57343
             THEN <<65533>> \o CodePoints(Tail(units))
             ELSE <<u>> \o CodePoints(Tail(units))

Utf8Of(cp) ==
    IF cp < 128 THEN <<cp>>
    ELSE IF cp < 2048 THEN <<192 + (cp \div 64), 128 + (cp % 64)>>
    ELSE IF cp < 65536
         THEN <<224 + (cp \div 4096), 128 + ((cp \div 64) % 64), 128 + (cp % 64)>>
    ELSE <<240 + (cp \div 262144), 128 + ((cp \div 4096) % 64),
           128 + ((cp \div 64) % 64), 128 + (cp % 64)>>

RECURSIVE Utf8OfAll(_)
Utf8OfAll(cps) ==
    IF cps = <<>> THEN <<>> ELSE Utf8Of(Head(cps)) \o Utf8OfAll(Tail(cps))

\* wasm_wrapper_text_encoder.encode(str)
TextEncoder_encode(units) == Utf8OfAll(CodePoints(units))

\* the UTF-8 decoder of the host, replacement mode: the code points of bytes
\* from index i on; Utf8Cont reads the continuation bytes of one sequence
RECURSIVE Utf8Decode(_, _), Utf8Cont(_, _, _, _, _, _)
Utf8Decode(bytes, i) ==
    IF i > Len(bytes) THEN <<>>
    ELSE LET c == bytes[i]
         IN  IF c < 128 THEN <<c>> \o Utf8Decode(bytes, i + 1)
             ELSE IF c >= 194 /\ c <= 223
                  THEN Utf8Cont(bytes, i + 1, 1, c - 192, 128, 191)
             ELSE IF c >= 224 /\ c <= 239
                  THEN Utf8Cont(bytes, i + 1, 2, c - 224,
                                IF c = 224 THEN 160 ELSE 128,
                                IF c = 237 THEN 159 ELSE 191)
             ELSE IF c >= 240 /\ c <= 244
                  THEN Utf8Cont(bytes, i + 1, 3, c - 240,
                                IF c = 240 THEN 144 ELSE 128,
                                IF c = 244 THEN 143 ELSE 191)
             ELSE <<65533>> \o Utf8Decode(bytes, i + 1)
Utf8Cont(bytes, j, need, cp, lo, hi) ==
    IF need = 0 THEN <<cp>> \o Utf8Decode(bytes, j)
    ELSE IF j > Len(bytes) THEN <<65533>>
    ELSE IF bytes[j] < lo \/ bytes[j] > hi THEN <<65533>> \o Utf8Decode(bytes, j)
    ELSE Utf8Cont(bytes, j + 1, need - 1, cp * 64 + (bytes[j] - 128), 128, 191)

RECURSIVE Utf16Of(_)
Utf16Of(cps) ==
    IF cps = <<>> THEN <<>>
    ELSE LET cp == Head(cps)
         IN  (IF cp < 65536 THEN <<cp>>
              ELSE <<55296 + ((cp - 65536) \div 1024), 56320 + ((cp - 65536) % 1024)>>)
             \o Utf16Of(Tail(cps))

\* wasm_wrapper_text_decoder.decode(view), for a decoder made by
\* new TextDecoder(): utf-8, not fatal, and a leading byte order mark
\* (U+FEFF) is consumed, not delivered
TextDecoder_decode(bytes) ==
    LET cps == Utf8Decode(bytes, 1)
    IN  Utf16Of(IF cps # <<>> /\ Head(cps) = 65279 THEN Tail(cps) ELSE cps)

MemSize  == 40      \* bytes of linear memory
HeapBase == 8       \* first address the allocator hands out

ZeroMem == [a \in 0..(MemSize - 1) |-> 0]

InBounds(ptr, len) == ptr >= 0 /\ len >= 0 /\ ptr + len <= MemSize

\* the bytes of memory m in [ptr, ptr+len)
Bytes(m, ptr, len) == [i \in 1..len |-> m[ptr + i - 1]]

\* memory m with bytes written at ptr
WriteBytes(m, ptr, bytes) ==
    [a \in DOMAIN m |->
        IF a >= ptr /\ a < ptr + Len(bytes) THEN bytes[a - ptr + 1] ELSE m[a]]

\* the four bytes of a 32-bit word, least significant first
Le32(n) == <<n % 256, (n \div 256) % 256, (n \div 65536) % 256, (n \div 16777216) % 256>>

\* DataView.getInt32(off, true): the little-endian word at off, signed
GetInt32(m, off) ==
    LET low == m[off] + 256 * m[off + 1] + 65536 * m[off + 2]
        top == m[off + 3]
    IN  low + 16777216 * (IF top >= 128 THEN top - 256 ELSE top)

AlignUp(a, align) == ((a + align - 1) \div align) * align

\* cabi_realloc(0, 0, align, size) of the instance, a bump allocator: a
\* request of size 0 is answered with the alignment as a dangling pointer, a
\* request that does not fit traps; never answers 0 for a non-empty request
Alloc(b, align, size) ==
    IF size = 0 THEN [ok |-> TRUE, ptr |-> align, brk |-> b]
    ELSE IF align < 1 THEN [ok |-> FALSE, ptr |-> 0, brk |-> b]
    ELSE LET ptr == AlignUp(b, align)
         IN  IF ptr + size > MemSize THEN [ok |-> FALSE, ptr |-> 0, brk |-> b]
             ELSE [ok |-> TRUE, ptr |-> ptr, brk |-> ptr + size]

\* an entry of the log of a call
Event(e, f, v) == [e |-> e, f |-> f, v |-> v]

\* the outcome of a helper: status "ok" or the name of the error thrown
Outcome(status, ptr, len, m, b, ev) ==
    [status |-> status, ptr |-> ptr, len |-> len, mem |-> m, brk |-> b, ev |-> ev]

\* wasm_wrapper_encode_str without the early return for the empty string
wasm_wrapper_encode_str_no_empty_case(value, defined, m, b) ==
    IF value.t # "string" THEN Outcome("TypeError", 0, 0, m, b, <<>>)
    ELSE LET encoded == TextEncoder_encode(value.v)
             len     == Len(encoded)
             a       == Alloc(b, 1, len)
             req     == <<Event("alloc", "", <<1, len, a.ptr>>)>>
         IN  IF ~a.ok THEN Outcome("RuntimeError", 0, 0, m, b, req)
             ELSE Outcome("ok", a.ptr, len, WriteBytes(m, a.ptr, encoded), a.brk,
                          req \o <<Event("write", "", <<a.ptr, len>>)>>)

\* js_wrapper.rs WASM_WRAPPER_ENCODE_STR (the same text is emitted by
\* export_funcs, lib.rs 216-234): the helper applied to a JavaScript value,
\* with the identifiers the module defines, the memory and the allocator.
wasm_wrapper_encode_str(value, defined, m, b) ==
    IF value.t # "string" THEN Outcome("TypeError", 0, 0, m, b, <<>>)
    ELSE IF Len(value.v) = 0 THEN Outcome("ok", 1, 0, m, b, <<>>)
    ELSE IF "wasm_wrapper_text_encoder" \notin defined
         THEN Outcome("ReferenceError", 0, 0, m, b, <<>>)
    ELSE LET encoded == TextEncoder_encode(value.v)
             len     == Len(encoded)
         IN  IF "wasm_export_realloc" \notin defined
             THEN Outcome("ReferenceError", 0, 0, m, b, <<>>)
             ELSE LET a   == Alloc(b, 1, len)
                      req == <<Event("alloc", "", <<1, len, a.ptr>>)>>
                  IN  IF ~a.ok THEN Outcome("RuntimeError", 0, 0, m, b, req)
                      ELSE IF "wasm_export_memory" \notin defined
                           THEN Outcome("ReferenceError", 0, 0, m, a.brk, req)
                      ELSE IF ~InBounds(a.ptr, len)
                           THEN Outcome("RangeError", 0, 0, m, a.brk, req)
                      ELSE Outcome("ok", a.ptr, len, WriteBytes(m, a.ptr, encoded), a.brk,
                                   req \o <<Event("write", "", <<a.ptr, len>>)>>)

\* the result of a decoding helper: status and the JavaScript value
Decoded(status, value) == [status |-> status, value |-> value]

\* js_wrapper.rs WASM_WRAPPER_DECODE_STR (also lib.rs 241-244)
wasm_wrapper_decode_str(ptr, len, defined, m) ==
    IF "wasm_export_memory" \notin defined THEN Decoded("ReferenceError", Undefined)
    ELSE IF ~InBounds(ptr, len) THEN Decoded("RangeError", Undefined)
    ELSE IF "wasm_wrapper_text_decoder" \notin defined
         THEN Decoded("ReferenceError", Undefined)
    ELSE Decoded("ok", Str(TextDecoder_decode(Bytes(m, ptr, len))))

----------------------------------------------------------------------------
(* SpecText: the string helpers of js_wrapper.rs applied on their own, with *)
(* every handle they capture defined.                                       *)

HelperHandles ==
    {"wasm_export_memory", "wasm_export_realloc",
     "wasm_wrapper_text_encoder", "wasm_wrapper_text_decoder"}

\* code units: NUL, "A", e-acute (2 bytes), euro sign (3 bytes), the byte
\* order mark U+FEFF, and the two halves of U+1F600 (4 bytes as a pair)
TextUnits == {0, 65, 233, 8364, 65279, 55357, 56832}

\* a surrogate is unpaired if no matching half stands next to it
WellFormed(units) ==
    \A i \in 1..Len(units) :
        /\ (units[i] >= 55296 /\ units[i] <= 56319) =>
              (i < Len(units) /\ units[i + 1] >= 56320 /\ units[i + 1] <= 57343)
        /\ (units[i] >= 56320 /\ units[i] <= 57343) =>
              (i > 1 /\ units[i - 1] >= 55296 /\ units[i - 1] <= 56319)

HelperFrame(pc, input, kind, status, ptr, len, output) ==
    [pc |-> pc, input |-> input, kind |-> kind, status |-> status,
     ptr |-> ptr, len |-> len, output |-> output]

InitText ==
    /\ \E n \in 0..MaxTextLen : \E t \in [1..n -> TextUnits] : \E v \in {Str(t), Num(5)} :
          helper = HelperFrame("ready", v, "String", "ok", 0, 0, Undefined)
    /\ mem = ZeroMem /\ brk = HeapBase /\ events = <<>>
    /\ sig = NoSig /\ cls = "Unclassified"
    /\ src = <<>> /\ phase = "new" /\ files = <<>> /\ funcs = <<>> /\ ifaces = <<>>
    /\ loaded = FALSE /\ hooks = {} /\ call = NoCall /\ stack = <<>>

\* a call of wasm_wrapper_encode_str(input)
EncodeText ==
    /\ helper.pc = "ready"
    /\ LET r == wasm_wrapper_encode_str(helper.input, HelperHandles, mem, brk)
       IN  /\ helper' = [helper EXCEPT !.pc = IF r.status = "ok" THEN "encoded" ELSE "failed",
                                       !.status = r.status, !.ptr = r.ptr, !.len = r.len]
           /\ mem' = r.mem
           /\ brk' = r.brk
           /\ events' = events \o r.ev
    /\ UNCHANGED <<clsVars, genVars, loaded, hooks, call, stack>>

\* a call of wasm_wrapper_decode_str(ptr, len) on the pair encode returned
DecodeText ==
    /\ helper.pc = "encoded"
    /\ LET d == wasm_wrapper_decode_str(helper.ptr, helper.len, HelperHandles, mem)
       IN  helper' = [helper EXCEPT !.pc = IF d.status = "ok" THEN "decoded" ELSE "failed",
                                    !.status = d.status, !.output = d.value]
    /\ UNCHANGED <<clsVars, genVars, instVars, call, events, stack>>

NextText == EncodeText \/ DecodeText

SpecText == InitText /\ [][NextText]_vars

AllocEvents == {i \in 1..Len(events) : events[i].e = "alloc"}

\* C8: encoding the empty text returns (1, 0) without calling the allocator;
\* no text makes encode_text request 0 bytes or return pointer 0.
C8_EmptyTextNoAlloc ==
    (helper.pc \in {"encoded", "decoded"} /\ helper.input.t = "string") =>
        /\ helper.input.v = <<>> =>
              (helper.ptr = 1 /\ helper.len = 0 /\ AllocEvents = {})
        /\ \A i \in AllocEvents : events[i].v[2] # 0
        /\ helper.ptr # 0

\* the empty text has been encoded
C8_Witness ==
    helper.pc = "encoded" /\ helper.input = Str(<<>>) /\ helper.ptr = 1

\* a text of three UTF-8 bytes has been encoded through the allocator
C8_WitnessAlloc ==
    helper.pc = "encoded" /\ helper.len = 3 /\ AllocEvents # {} /\ helper.ptr = HeapBase

\* C9: decode_text applied to the pair returned by encode_text(t), against
\* the same memory, yields t, for every text t.  Stated for the well-formed
\* texts (no unpaired surrogate), which TextEncoder encodes without loss.
C9_WellFormedRoundTrip ==
    (helper.pc = "decoded" /\ WellFormed(helper.input.v)) => helper.output = helper.input

\* what does hold: the round trip of a well-formed text that does not begin
\* with the byte order mark
TextRoundTripNoBom ==
    (helper.pc = "decoded" /\ WellFormed(helper.input.v)
        /\ (helper.input.v = <<>> \/ helper.input.v[1] # 65279))
    => helper.output = helper.input

----------------------------------------------------------------------------
(* The list helpers of js_wrapper.rs.                                       *)

ListKinds ==
    {"S8", "U8", "Bool", "S16", "U16", "S32", "U32", "Char",
     "S64", "U64", "Float32", "Float64"}

\* the typed array constructors the host defines
HostTypedArrays ==
    {"Int8Array", "Uint8Array", "Uint8ClampedArray", "Int16Array", "Uint16Array",
     "Int32Array", "Uint32Array", "Float32Array", "Float64Array",
     "BigInt64Array", "BigUint64Array"}

\* the constructor WASM_WRAPPER_STORE_LIST and WASM_WRAPPER_LOAD_LIST name
\* for an element kind (the two chains of conditions are the same)
ViewCtor(type) ==
    IF type = "S8" THEN "Int8Array"
    ELSE IF type \in {"U8", "Bool"} THEN "Uint8Array"
    ELSE IF type = "S16" THEN "Int16Array"
    ELSE IF type = "U16" THEN "Uint16Array"
    ELSE IF type = "S32" THEN "Int32Array"
    ELSE IF type \in {"U32", "Char"} THEN "Uint32Array"
    ELSE IF type = "S64" THEN "Int64Array"
    ELSE IF type = "U64" THEN "Uint64Array"
    ELSE IF type = "Float32" THEN "Float32Array"
    ELSE "Float64Array"

\* bytes per element of a typed array, by constructor
BytesPerElement(ctor) ==
    IF ctor \in {"Int8Array", "Uint8Array", "Uint8ClampedArray"} THEN 1
    ELSE IF ctor \in {"Int16Array", "Uint16Array"} THEN 2
    ELSE IF ctor \in {"Int32Array", "Uint32Array", "Float32Array"} THEN 4
    ELSE 8

SignedCtor(ctor) == ctor \in {"Int8Array", "Int16Array", "Int32Array", "BigInt64Array"}

\* the n bytes of v, least significant first, two's complement.  A float is
\* named by its bit pattern, so its bytes are those of the pattern.
RECURSIVE BytesOf(_, _)
BytesOf(v, n) == IF n = 0 THEN <<>> ELSE <<v % 256>> \o BytesOf(v \div 256, n - 1)

RECURSIVE ValueOf(_, _)
ValueOf(bytes, signed) ==
    IF Len(bytes) = 1
    THEN (IF signed /\ bytes[1] >= 128 THEN bytes[1] - 256 ELSE bytes[1])
    ELSE bytes[1] + 256 * ValueOf(Tail(bytes), signed)

\* the values of an element kind that lists are made of
ElemValues(type) ==
    IF type = "S8" THEN {-1, 5}
    ELSE IF type = "U8" THEN {0, 200}
    ELSE IF type = "Bool" THEN {0, 1}
    ELSE IF type = "S16" THEN {-2, 300}
    ELSE IF type = "U16" THEN {1, 65535}
    ELSE IF type = "S32" THEN {-3, 70000}
    ELSE IF type = "U32" THEN {7, 70000}
    ELSE IF type = "Char" THEN {65, 128512}
    ELSE IF type = "S64" THEN {-4, 9}
    ELSE IF type = "U64" THEN {0, 9}
    ELSE IF type = "Float32" THEN {0, 1065353216}
    ELSE {0, 1072693248}

\* WASM_WRAPPER_STORE_LIST, lines 91-108: size and align after the four
\* conditions.  The third and fourth compare `size` (a number, or undefined)
\* with "U32" and "U64", which is never true, so for U32 and U64 both stay
\* undefined (set = FALSE).
StoreSizeAlign(type, len) ==
    IF type \in {"S64", "Float64"} THEN [set |-> TRUE, size |-> len * 8, align |-> 8]
    ELSE IF type \in {"S32", "Char", "Float32"} THEN [set |-> TRUE, size |-> len * 4, align |-> 4]
    ELSE IF type \in {"U16", "S16"} THEN [set |-> TRUE, size |-> len * 2, align |-> 2]
    ELSE IF type \in {"U8", "S8", "Bool"} THEN [set |-> TRUE, size |-> len, align |-> 1]
    ELSE [set |-> FALSE, size |-> 0, align |-> 0]

\* cabi_realloc with the alignment the helper passes: undefined arrives as
\* 0, which the allocator is not defined for; it may trap or may answer as
\* for alignment 1 (ub)
AllocFor(b, align, size, ub) ==
    IF size # 0 /\ align < 1
    THEN (IF ub = "trap" THEN [ok |-> FALSE, ptr |-> 0, brk |-> b] ELSE Alloc(b, 1, size))
    ELSE Alloc(b, align, size)

\* new <ctor>(wasm_export_memory.buffer, ptr, len) is a RangeError unless
\* ptr is a multiple of the element size and the elements fit the buffer
ViewOk(ctor, ptr, len) ==
    /\ ptr >= 0
    /\ ptr % BytesPerElement(ctor) = 0
    /\ ptr + len * BytesPerElement(ctor) <= MemSize

RECURSIVE ElemBytes(_, _)
ElemBytes(lst, n) ==
    IF lst = <<>> THEN <<>> ELSE BytesOf(Head(lst), n) \o ElemBytes(Tail(lst), n)

\* WASM_WRAPPER_STORE_LIST (lines 89-146) applied to a list of numbers.
\* strict: the helper is evaluated as module code, where the assignment to
\* the undeclared `ptr` throws once its right-hand side has been evaluated.
wasm_wrapper_store_list(lst, type, m, b, strict, ub) ==
    LET len  == Len(lst)
        sa   == StoreSizeAlign(type, len)
        a    == AllocFor(b, sa.align, len, ub)
        req  == <<Event("alloc", "", <<sa.align, len, a.ptr>>)>>
        ctor == ViewCtor(type)
    IN  IF ~a.ok THEN Outcome("RuntimeError", 0, 0, m, b, req)
        ELSE IF strict THEN Outcome("ReferenceError", 0, 0, m, a.brk, req)
        ELSE IF ctor \notin HostTypedArrays THEN Outcome("ReferenceError", 0, 0, m, a.brk, req)
        ELSE IF ~ViewOk(ctor, a.ptr, len) THEN Outcome("RangeError", 0, 0, m, a.brk, req)
        ELSE Outcome("ok", a.ptr, len,
                     WriteBytes(m, a.ptr, ElemBytes(lst, BytesPerElement(ctor))), a.brk,
                     req \o <<Event("write", "", <<a.ptr, len * BytesPerElement(ctor)>>)>>)

\* WASM_WRAPPER_LOAD_LIST (lines 38-84)
wasm_wrapper_load_list(ptr, len, type, m) ==
    LET ctor == ViewCtor(type)
        n    == BytesPerElement(ctor)
    IN  IF ctor \notin HostTypedArrays THEN Decoded("ReferenceError", <<>>)
        ELSE IF ~ViewOk(ctor, ptr, len) THEN Decoded("RangeError", <<>>)
        ELSE Decoded("ok", [i \in 1..len |->
                                ValueOf(Bytes(m, ptr + (i - 1) * n, n), SignedCtor(ctor))])

----------------------------------------------------------------------------
(* SpecList: store_list and load_list applied on their own.                 *)

ListFrame(pc, input, kind, strict, ub) ==
    [pc |-> pc, input |-> input, kind |-> kind, status |-> "ok",
     ptr |-> 0, len |-> 0, output |-> <<>>, strict |-> strict, ub |-> ub]

InitList ==
    /\ \E kind \in ListKinds, strict \in BOOLEAN, ub \in {"trap", "byte"} :
          \E n \in 0..MaxListLen : \E lst \in [1..n -> ElemValues(kind)] :
              helper = ListFrame("ready", lst, kind, strict, ub)
    /\ mem = ZeroMem /\ brk = HeapBase /\ events = <<>>
    /\ sig = NoSig /\ cls = "Unclassified"
    /\ src = <<>> /\ phase = "new" /\ files = <<>> /\ funcs = <<>> /\ ifaces = <<>>
    /\ loaded = FALSE /\ hooks = {} /\ call = NoCall /\ stack = <<>>

\* a call of wasm_wrapper_store_list(input, kind)
StoreList ==
    /\ helper.pc = "ready"
    /\ LET r == wasm_wrapper_store_list(helper.input, helper.kind, mem, brk,
                                        helper.strict, helper.ub)
       IN  /\ helper' = [helper EXCEPT !.pc = IF r.status = "ok" THEN "stored" ELSE "failed",
                                       !.status = r.status, !.ptr = r.ptr, !.len = r.len]
           /\ mem' = r.mem
           /\ brk' = r.brk
           /\ events' = events \o r.ev
    /\ UNCHANGED <<clsVars, genVars, loaded, hooks, call, stack>>

\* a call of wasm_wrapper_load_list(ptr, len, kind) on the pair store returned
LoadList ==
    /\ helper.pc = "stored"
    /\ LET d == wasm_wrapper_load_list(helper.ptr, helper.len, helper.kind, mem)
       IN  helper' = [helper EXCEPT !.pc = IF d.status = "ok" THEN "loaded" ELSE "failed",
                                    !.status = d.status, !.output = d.value]
    /\ UNCHANGED <<clsVars, genVars, instVars, call, events, stack>>

NextList == StoreList \/ LoadList

SpecList == InitList /\ [][NextList]_vars

\* C10: for every supported element kind and every sequence of values of
\* that kind, the empty one included, load_list applied to the pair returned
\* by store_list yields the original sequence.  Stated for the helper run as
\* a script (not strict) and for the kinds whose size and alignment the
\* dispatch of store_list sets, where the claim has its best case.
C10_ListRoundTrip ==
    (helper.pc \in {"loaded", "failed"} /\ ~helper.strict
        /\ StoreSizeAlign(helper.kind, Len(helper.input)).set) =>
        /\ helper.pc = "loaded"
        /\ helper.output = helper.input

\* the kinds for which the round trip does hold when the helper runs as a script
ListRoundTripNarrowKinds ==
    (helper.pc \in {"loaded", "failed"} /\ ~helper.strict
        /\ helper.kind \notin {"S64", "U64", "U32"}) =>
        /\ helper.pc = "loaded"
        /\ helper.output = helper.input

\* the (element size, alignment) pair the size / align table gives a kind
SizeAlignTable(type) ==
    IF type \in {"U8", "S8", "Bool"} THEN [size |-> 1, align |-> 1]
    ELSE IF type \in {"U16", "S16"} THEN [size |-> 2, align |-> 2]
    ELSE IF type \in {"U32", "S32", "Char", "Float32"} THEN [size |-> 4, align |-> 4]
    ELSE [size |-> 8, align |-> 8]

\* store_list has run on the input, whatever came of it
StoreListRan == helper.pc \in {"stored", "loaded", "failed"} /\ helper.kind \in ListKinds

\* C11: for every element kind store_list accepts, the dispatch sets size and
\* alignment, to the values of the size / align table for the kind (1/1 for
\* U8, S8, Bool; 2/2 for U16, S16; 4/4 for U32, S32, Char, Float32; 8/8 for
\* U64, S64, Float64), and that alignment is the one handed to the allocator.
C11_DispatchMatchesTable ==
    StoreListRan =>
        LET n  == Len(helper.input)
            sa == StoreSizeAlign(helper.kind, n)
            t  == SizeAlignTable(helper.kind)
        IN  /\ sa.set
            /\ sa.size = n * t.size
            /\ sa.align = t.align
            /\ \A i \in AllocEvents : events[i].v[1] = t.align

\* what does hold: the dispatch agrees with the table for every kind but U32
\* and U64
DispatchMatchesTableButU32U64 ==
    (StoreListRan /\ helper.kind \notin {"U32", "U64"}) => C11_DispatchMatchesTable

\* C15: for a list of n elements store_list makes one request to the
\* allocator, for n * element_size bytes at the alignment of the kind, and
\* returns (pointer, n).  Stated for the helper run as a script and for the
\* kinds whose dispatch and typed array exist, where the claim has its best
\* case.
C15_StoreRequestsWholeList ==
    (StoreListRan /\ ~helper.strict /\ helper.kind \notin {"U32", "U64", "S64"}) =>
        LET n == Len(helper.input)
            t == SizeAlignTable(helper.kind)
        IN  /\ Cardinality(AllocEvents) = 1
            /\ \A i \in AllocEvents :
                  /\ events[i].v[1] = t.align
                  /\ events[i].v[2] = n * t.size
                  /\ helper.pc # "failed" => helper.ptr = events[i].v[3]
            /\ helper.pc # "failed"
            /\ helper.len = n

\* what does hold: the request is right for the kinds of one byte per element
StoreRequestsWholeListOfBytes ==
    (StoreListRan /\ helper.kind \in {"U8", "S8", "Bool"}) => C15_StoreRequestsWholeList

----------------------------------------------------------------------------
(* The generator.  Js.src is a sequence of chunks, one per emitted          *)
(* declaration or statement group of the module text:                       *)
(*   [k, name, body]  with body the statements of a wrapper function.       *)

Chunk(k, name)           == [k |-> k, name |-> name, body |-> <<>>]
WrapperChunk(name, body) == [k |-> "wrapper", name |-> name, body |-> body]

\* a statement of a wrapper body: op, the argument slot n, the parameter p
Stmt(op, n, p) == [op |-> op, n |-> n, p |-> p]

\* Parameter lists and results of the export sets handed to export_funcs.
WrapParamLists ==
    { <<>>, <<"S32">>, <<"String">>, <<"String", "String">>, <<"S32", "String">>, <<"Id">> }

WrapResults ==
    { Anon("S32"), Anon("String"), Anon("Id"), Named(<<>>), Named(<<"S32", "String">>) }

FuncName(i) == IF i = 1 THEN "f1" ELSE IF i = 2 THEN "f2" ELSE IF i = 3 THEN "f3" ELSE "f4"

\* the export set of n functions with the given parameter lists and results
ExportSet(n, ps, rs) ==
    [i \in 1..n |-> [name |-> FuncName(i), params |-> ps[i], results |-> rs[i]]]

HasStringParam(func)  == \E i \in 1..Len(func.params) : func.params[i] = "String"
HasStringResult(func) == \E i \in 1..Len(func.results.tys) : func.results.tys[i] = "String"

\* export_funcs, the first loop over funcs (lines 161-193): the flags
\* <<exist_string_as_param, exist_string_as_result>>; the loop is left at the
\* end of the first function that set either flag.
RECURSIVE ScanStrings(_, _, _, _)
ScanStrings(fs, i, p, r) ==
    IF i > Len(fs) THEN <<p, r>>
    ELSE LET p2 == p \/ HasStringParam(fs[i])
             r2 == r \/ HasStringResult(fs[i])
         IN  IF p2 \/ r2 THEN <<p2, r2>> ELSE ScanStrings(fs, i + 1, p2, r2)

exist_string_as_param(fs)  == ScanStrings(fs, 1, FALSE, FALSE)[1]
exist_string_as_result(fs) == ScanStrings(fs, 1, FALSE, FALSE)[2]

\* export_funcs, lines 194-247: the captured handles and the helpers.
HelperChunks(fs) ==
    LET p == exist_string_as_param(fs)
        r == exist_string_as_result(fs)
    IN  (IF p \/ r THEN <<Chunk("const", "wasm_export_memory")>> ELSE <<>>)
     \o (IF p THEN <<Chunk("const", "wasm_export_realloc"),
                     Chunk("const", "wasm_wrapper_text_encoder")>> ELSE <<>>)
     \o (IF r THEN <<Chunk("const", "wasm_wrapper_text_decoder")>> ELSE <<>>)
     \o (IF p THEN <<Chunk("function", "wasm_wrapper_encode_str")>> ELSE <<>>)
     \o (IF r THEN <<Chunk("function", "wasm_wrapper_decode_str")>> ELSE <<>>)

\* export_funcs, lines 288-293: the statements for String parameter i
LowerString(i, arg_cnt) ==
    << Stmt("encode", 0, i), Stmt("argptr", arg_cnt, i), Stmt("arglen", arg_cnt + 1, i) >>

\* export_funcs, lines 285-302: <<statements, arg_cnt>> for the parameters
\* from the i-th on; stops at a Type::Id parameter, where the code panics.
RECURSIVE LowerParams(_, _, _)
LowerParams(params, i, arg_cnt) ==
    IF i > Len(params) THEN [stmts |-> <<>>, cnt |-> arg_cnt]
    ELSE IF params[i] = "String"
         THEN LET rest == LowerParams(params, i + 1, arg_cnt + 2)
              IN  [stmts |-> LowerString(i, arg_cnt) \o rest.stmts, cnt |-> rest.cnt]
    ELSE IF params[i] = "Id"
         THEN [stmts |-> <<>>, cnt |-> arg_cnt]
    ELSE LET rest == LowerParams(params, i + 1, arg_cnt + 1)
         IN  [stmts |-> <<Stmt("argval", arg_cnt, i)>> \o rest.stmts, cnt |-> rest.cnt]

\* export_funcs, lines 313-335: the statements lifting the result
LiftResult(func) ==
    IF func.results = Anon("String")
    THEN << Stmt("result_ptr", 0, 0), Stmt("result_len", 0, 0), Stmt("decode", 0, 0) >>
    ELSE <<>>

\* the body of the wrapper with the release hook run before the result is read
WrapperBody_release_first(func) ==
    LET low == LowerParams(func.params, 1, 0)
    IN  low.stmts
     \o << Stmt("call", low.cnt, 0), Stmt("post", 0, 0) >>
     \o LiftResult(func)
     \o << Stmt("return", 0, 0) >>

\* export_funcs, lines 280-347: the body of the wrapper of func
WrapperBody(func) ==
    LET low == LowerParams(func.params, 1, 0)
    IN  low.stmts
     \o << Stmt("call", low.cnt, 0) >>
     \o LiftResult(func)
     \o << Stmt("post", 0, 0), Stmt("return", 0, 0) >>

\* the todo!() conditions with the one of line 333 (named results) left out
Unsupported_without_named(func) ==
    \/ \E i \in 1..Len(func.params) : func.params[i] = "Id"
    \/ func.results = Anon("Id")

\* the todo!() of lines 295, 317 and 333, reached only on the wrapper path
Unsupported(func) ==
    \/ \E i \in 1..Len(func.params) : func.params[i] = "Id"
    \/ func.results.kind = "Named"
    \/ func.results = Anon("Id")

\* the binding of one function with the fast path left out: every function
\* gets a wrapper
BindingChunk_always_wrapper(func) ==
    IF Unsupported(func) THEN Chunk("partial_wrapper", func.name)
    ELSE WrapperChunk(func.name, WrapperBody(func))

\* export_funcs, lines 250-349: the binding of one function
BindingChunk(func) ==
    IF is_primary_func(func) THEN Chunk("direct", func.name)
    ELSE IF Unsupported(func) THEN Chunk("partial_wrapper", func.name)
    ELSE WrapperChunk(func.name, WrapperBody(func))

Panics(func) == ~is_primary_func(func) /\ Unsupported(func)

\* index of the first function at which export_funcs panics, 0 if none
FirstPanic(fs) ==
    IF \E i \in 1..Len(fs) : Panics(fs[i])
    THEN CHOOSE i \in 1..Len(fs) : Panics(fs[i]) /\ \A j \in 1..(i - 1) : ~Panics(fs[j])
    ELSE 0

\* the export statement with the last function left out
ExportChunk_without_last(fs) ==
    [k |-> "export", name |-> "", body |-> [i \in 1..(Len(fs) - 1) |-> fs[i].name]]

\* export_funcs, lines 351-356: the final export statement
ExportChunk(fs) == [k |-> "export", name |-> "", body |-> [i \in 1..Len(fs) |-> fs[i].name]]

Init ==
    /\ sig = NoSig /\ cls = "Unclassified"
    /\ src = <<>> /\ phase = "new" /\ files = <<>> /\ funcs = <<>> /\ ifaces = <<>>
    /\ loaded = FALSE /\ hooks = {} /\ mem = <<>> /\ brk = 0
    /\ call = NoCall /\ events = <<>> /\ stack = <<>> /\ helper = NoHelper

\* Js::preprocess: the loading preamble and the empty import object
Preprocess ==
    /\ phase = "new"
    /\ src' = src \o << Chunk("preamble", ""), Chunk("let", "wasm_import_objects") >>
    /\ phase' = "preprocessed"
    /\ UNCHANGED <<files, funcs, ifaces, clsVars, instVars, runVars, hlpVars>>

\* Js::export_funcs on a non-empty export set
ExportFuncs ==
    /\ phase = "preprocessed"
    /\ \E k \in 1..MaxFuncs : \E ps \in [1..k -> WrapParamLists], rs \in [1..k -> WrapResults] :
        LET fs   == ExportSet(k, ps, rs)
            n    == FirstPanic(fs)
            upto == IF n = 0 THEN Len(fs) ELSE n
            head == src \o << Chunk("let", "wasm_instance") >> \o HelperChunks(fs)
                        \o [i \in 1..upto |-> BindingChunk(fs[i])]
        IN  /\ funcs' = fs
            /\ IF n = 0
               THEN /\ src' = head \o << ExportChunk(fs) >>
                    /\ phase' = "exported"
               ELSE /\ src' = head
                    /\ phase' = "panicked"
    /\ UNCHANGED <<files, ifaces, clsVars, instVars, runVars, hlpVars>>

\* Js::finish: the emitted source becomes the one output file
Finish ==
    /\ phase \in {"preprocessed", "exported"}
    /\ files' = Append(files, src)
    /\ phase' = "finished"
    /\ UNCHANGED <<src, funcs, ifaces, clsVars, instVars, runVars, hlpVars>>

----------------------------------------------------------------------------
(* Imported interfaces.  SpecWorld is the generator run on a world with     *)
(* imported interfaces; Spec is the generator on a world without them,      *)
(* followed by the emitted module at run time.                              *)

IfaceName(i) == IF i = 1 THEN "i1" ELSE IF i = 2 THEN "i2" ELSE "i3"

\* the functions of an imported interface, in the order of iface.functions
IfaceFuncLists == { <<>>, <<"f", "g">> }

\* the statements of one import_interface call with the creation of the
\* interface's mapping emitted after the assignments into it
ImportChunks_entries_first(iface_name, fns) ==
    << [k |-> "import", name |-> iface_name, body |-> fns] >>
    \o [i \in 1..Len(fns) |-> [k |-> "import_entry", name |-> iface_name, body |-> <<fns[i]>>]]
    \o << [k |-> "import_object", name |-> iface_name, body |-> <<>>] >>

\* import_interface, lines 94-111:
\*   import {f as wasm_import_<I>_<f>, ...} from "./<I>.js";
\*   wasm_import_objects["<I>"] = {};
\*   wasm_import_objects["<I>"]["<f>"] = wasm_import_<I>_<f>;   for each f
ImportChunks(iface_name, fns) ==
    << [k |-> "import", name |-> iface_name, body |-> fns],
       [k |-> "import_object", name |-> iface_name, body |-> <<>>] >>
    \o [i \in 1..Len(fns) |-> [k |-> "import_entry", name |-> iface_name, body |-> <<fns[i]>>]]

\* Js::import_interface, called once per imported interface of the world,
\* after preprocess and before the exports
ImportInterface ==
    /\ phase = "preprocessed"
    /\ Len(ifaces) < MaxIfaces
    /\ \E fns \in IfaceFuncLists :
          LET iface_name == IfaceName(Len(ifaces) + 1)
          IN  /\ ifaces' = Append(ifaces, [name |-> iface_name, functions |-> fns])
              /\ src' = src \o ImportChunks(iface_name, fns)
    /\ UNCHANGED <<phase, files, funcs, clsVars, instVars, runVars, hlpVars>>

NextWorld == Preprocess \/ ImportInterface \/ ExportFuncs \/ Finish

SpecWorld == Init /\ [][NextWorld]_vars

\* the value of the identifier wasm_import_<I>_<f>: the export f of ./<I>.js
HostFunction(iface_name, f) == [module |-> iface_name, export |-> f]

\* the module text binds wasm_import_<I>_<f> in an import declaration
\* (import declarations take effect before any statement runs)
ImportedBinding(chunks, iface_name, f) ==
    \E i \in 1..Len(chunks) :
        /\ chunks[i].k = "import" /\ chunks[i].name = iface_name
        /\ \E j \in 1..Len(chunks[i].body) : chunks[i].body[j] = f

NoImports == [declared |-> FALSE, err |-> "", obj |-> <<>>]

\* the host evaluating the statements of the module text from the i-th on,
\* up to new WebAssembly.Instance(wasm_module, wasm_import_objects): whether
\* wasm_import_objects is declared, the error thrown if any, and the object
RECURSIVE EvalImports(_, _, _)
EvalImports(chunks, i, st) ==
    IF i > Len(chunks) \/ st.err # "" THEN st
    ELSE LET c == chunks[i]
         IN  IF c.k = "let" /\ c.name = "wasm_instance" THEN st
             ELSE IF c.k = "let" /\ c.name = "wasm_import_objects"
             THEN EvalImports(chunks, i + 1, [st EXCEPT !.declared = TRUE])
             ELSE IF c.k = "import_object"
             THEN IF ~st.declared THEN [st EXCEPT !.err = "ReferenceError"]
                  ELSE EvalImports(chunks, i + 1,
                                   [st EXCEPT !.obj = (c.name :> <<>>) @@ st.obj])
             ELSE IF c.k = "import_entry"
             THEN IF ~st.declared THEN [st EXCEPT !.err = "ReferenceError"]
                  ELSE IF c.name \notin DOMAIN st.obj THEN [st EXCEPT !.err = "TypeError"]
                  ELSE IF ~ImportedBinding(chunks, c.name, c.body[1])
                       THEN [st EXCEPT !.err = "ReferenceError"]
                  ELSE EvalImports(chunks, i + 1,
                          [st EXCEPT !.obj =
                              (c.name :> ((c.body[1] :> HostFunction(c.name, c.body[1]))
                                            @@ st.obj[c.name])) @@ st.obj])
             ELSE EvalImports(chunks, i + 1, st)

\* the import object handed to the instantiation of the emitted source
ImportObject(chunks) == EvalImports(chunks, 1, NoImports)

----------------------------------------------------------------------------
(* The emitted module at run time.                                          *)

Module == files[1]

\* the global identifiers the module text declares
Defined ==
    {Module[i].name : i \in {j \in 1..Len(Module) : Module[j].k \in {"const", "function", "let"}}}

\* the chunk binding wasm_export_<name>
BindingOf(name) ==
    LET i == CHOOSE j \in 1..Len(Module) :
                Module[j].k \in {"direct", "wrapper"} /\ Module[j].name = name
    IN  Module[i]

Foo    == <<102, 111, 111>>
FooBar == <<102, 111, 111, 98, 97, 114>>

\* what a caller may pass for a parameter of a type: JavaScript is untyped,
\* so a String parameter may also receive a number
ArgValues(type) ==
    IF type = "String" THEN {Str(<<>>), Str(Foo), Num(5)} ELSE {Num(7)}

ArgLists(params) ==
    {args \in [1..Len(params) -> UNION {ArgValues(params[i]) : i \in 1..Len(params)}] :
        \A i \in 1..Len(params) : args[i] \in ArgValues(params[i])}

\* texts and numbers the underlying export may return
ResultTexts   == {<<>>, FooBar}
ResultNumbers == {0, 42}

\* ToInt32 of a JavaScript value passed to or returned by the instance
ToInt32(val) == IF val.t = "number" THEN val.v[1] ELSE 0

Frame(pc, status, f, args) ==
    [pc |-> pc, status |-> status, f |-> f, args |-> args,
     slots |-> [k \in 0..(2 * Len(args)) |-> Undefined],
     enc |-> [i \in 1..Len(args) |-> <<0, 0>>],
     wasm_func_result |-> Undefined,
     result_ptr |-> 0, result_len |-> 0,
     js_func_result |-> [t |-> "undeclared", v |-> <<>>],
     ret |-> Undefined, err |-> ""]

Idle == Frame(0, "idle", 0, <<>>)

Running == loaded /\ call.status = "running"
Func    == funcs[call.f]
Cur     == BindingOf(Func.name).body[call.pc]
InWrapper(ops) ==
    /\ Running
    /\ BindingOf(Func.name).k = "wrapper"
    /\ Cur.op \in ops

Throw(err, ev) ==
    /\ call' = [call EXCEPT !.status = "thrown", !.err = err]
    /\ events' = events \o ev

\* the host evaluates the module: the instance is created, with the release
\* hooks the compiled module happens to export
Load ==
    /\ phase = "finished" /\ ~loaded
    /\ \E i \in 1..Len(Module) : Module[i].k = "export"
    /\ loaded' = TRUE
    /\ hooks' \in SUBSET {funcs[i].name : i \in {j \in 1..Len(funcs) : HasStringResult(funcs[j])}}
    /\ mem' = ZeroMem
    /\ brk' = HeapBase
    /\ call' = Idle
    /\ UNCHANGED <<clsVars, genVars, events, hlpVars, stack>>

\* the host calls the exported binding of function i
CallBinding ==
    /\ loaded /\ call.status = "idle"
    /\ \E i \in 1..Len(funcs) : \E args \in ArgLists(funcs[i].params) :
          call' = Frame(1, "running", i, args)
    /\ events' = <<>>
    /\ UNCHANGED <<clsVars, genVars, instVars, hlpVars, stack>>

\* the underlying export of func, run by the instance: a String result is
\* written to memory and its (pointer, length) pair stored in a return area
\* whose address is returned; a scalar result is returned as it is
ExportRun(func, m, b, text, number) ==
    IF func.results = Anon("String")
    THEN LET d    == Alloc(b, 1, Len(text))
             area == Alloc(d.brk, 4, 8)
         IN  IF ~d.ok \/ ~area.ok
             THEN [ok |-> FALSE, ret |-> Undefined, mem |-> m, brk |-> b]
             ELSE [ok |-> TRUE, ret |-> Num(area.ptr),
                   mem |-> WriteBytes(WriteBytes(m, d.ptr, TextEncoder_encode(text)),
                                      area.ptr, Le32(d.ptr) \o Le32(Len(TextEncoder_encode(text)))),
                   brk |-> area.brk]
    ELSE IF func.results.kind = "Anon"
    THEN [ok |-> TRUE, ret |-> Num(number), mem |-> m, brk |-> b]
    ELSE [ok |-> TRUE, ret |-> Undefined, mem |-> m, brk |-> b]

\* the log entry of a call of wasm_instance.exports[name] with the given
\* JavaScript values, which arrive in the instance as 32-bit numbers
ExportEvent(argvals) ==
    Event("export", Func.name, [i \in 1..Len(argvals) |-> ToInt32(argvals[i])])

\* lib.rs 273-278: the binding is the export itself
DirectCall ==
    /\ Running
    /\ BindingOf(Func.name).k = "direct"
    /\ \E text \in ResultTexts, number \in ResultNumbers :
          LET r == ExportRun(Func, mem, brk, text, number)
          IN  IF r.ok
              THEN /\ mem' = r.mem /\ brk' = r.brk
                   /\ events' = Append(events, ExportEvent(call.args))
                   /\ call' = [call EXCEPT !.status = "returned", !.ret = r.ret]
              ELSE /\ UNCHANGED <<mem, brk>>
                   /\ Throw("RuntimeError", <<ExportEvent(call.args)>>)
    /\ UNCHANGED <<clsVars, genVars, loaded, hooks, hlpVars, stack>>

\* let <p>_encoded = wasm_wrapper_encode_str(<p>);
StepEncode ==
    /\ InWrapper({"encode"})
    /\ IF "wasm_wrapper_encode_str" \notin Defined
       THEN /\ Throw("ReferenceError", <<>>)
            /\ UNCHANGED <<mem, brk>>
       ELSE LET r == wasm_wrapper_encode_str(call.args[Cur.p], Defined, mem, brk)
            IN  /\ mem' = r.mem
                /\ brk' = r.brk
                /\ IF r.status = "ok"
                   THEN /\ call' = [call EXCEPT !.pc = @ + 1, !.enc[Cur.p] = <<r.ptr, r.len>>]
                        /\ events' = events \o r.ev
                   ELSE Throw(r.status, r.ev)
    /\ UNCHANGED <<clsVars, genVars, loaded, hooks, hlpVars, stack>>

\* let arg<n> = <p>_encoded.ptr;  let arg<n> = <p>_encoded.len;  let arg<n> = <p>;
StepArg ==
    /\ InWrapper({"argptr", "arglen", "argval"})
    /\ LET val == IF Cur.op = "argptr" THEN Num(call.enc[Cur.p][1])
                  ELSE IF Cur.op = "arglen" THEN Num(call.enc[Cur.p][2])
                  ELSE call.args[Cur.p]
       IN  call' = [call EXCEPT !.pc = @ + 1, !.slots[Cur.n] = val]
    /\ UNCHANGED <<clsVars, genVars, instVars, events, hlpVars, stack>>

\* let wasm_func_result = wasm_instance.exports["<f>"](arg0, ..., arg<n-1>, );
StepCall ==
    /\ InWrapper({"call"})
    /\ \E text \in ResultTexts, number \in ResultNumbers :
          LET r    == ExportRun(Func, mem, brk, text, number)
              argv == [i \in 1..Cur.n |-> call.slots[i - 1]]
          IN  IF r.ok
              THEN /\ mem' = r.mem /\ brk' = r.brk
                   /\ events' = Append(events, ExportEvent(argv))
                   /\ call' = [call EXCEPT !.pc = @ + 1, !.wasm_func_result = r.ret]
              ELSE /\ UNCHANGED <<mem, brk>>
                   /\ Throw("RuntimeError", <<ExportEvent(argv)>>)
    /\ UNCHANGED <<clsVars, genVars, loaded, hooks, hlpVars, stack>>

\* const wasm_func_result_ptr = new DataView(wasm_export_memory.buffer)
\*     .getInt32(wasm_func_result, true);   and the same at +4 for the length
StepReadWord ==
    /\ InWrapper({"result_ptr", "result_len"})
    /\ LET off == ToInt32(call.wasm_func_result) + (IF Cur.op = "result_len" THEN 4 ELSE 0)
       IN  IF "wasm_export_memory" \notin Defined THEN Throw("ReferenceError", <<>>)
           ELSE IF ~InBounds(off, 4) THEN Throw("RangeError", <<>>)
           ELSE /\ call' = IF Cur.op = "result_ptr"
                           THEN [call EXCEPT !.pc = @ + 1, !.result_ptr = GetInt32(mem, off)]
                           ELSE [call EXCEPT !.pc = @ + 1, !.result_len = GetInt32(mem, off)]
                /\ events' = Append(events, Event("read", "", <<off>>))
    /\ UNCHANGED <<clsVars, genVars, instVars, hlpVars, stack>>

\* const js_func_result = wasm_wrapper_decode_str(wasm_func_result_ptr, wasm_func_result_len);
StepDecode ==
    /\ InWrapper({"decode"})
    /\ IF "wasm_wrapper_decode_str" \notin Defined THEN Throw("ReferenceError", <<>>)
       ELSE LET d == wasm_wrapper_decode_str(call.result_ptr, call.result_len, Defined, mem)
            IN  IF d.status # "ok" THEN Throw(d.status, <<>>)
                ELSE /\ call' = [call EXCEPT !.pc = @ + 1, !.js_func_result = d.value]
                     /\ events' = Append(events,
                                    Event("decode", "", <<call.result_ptr, call.result_len>>))
    /\ UNCHANGED <<clsVars, genVars, instVars, hlpVars, stack>>

\* let post_return = wasm_instance.exports["cabi_post_<f>"];
\* if (post_return) { post_return(wasm_func_result); }
StepPost ==
    /\ InWrapper({"post"})
    /\ call' = [call EXCEPT !.pc = @ + 1]
    /\ events' = IF Func.name \in hooks
                 THEN Append(events, Event("post", Func.name, <<ToInt32(call.wasm_func_result)>>))
                 ELSE events
    /\ UNCHANGED <<clsVars, genVars, instVars, hlpVars, stack>>

\* return js_func_result;   (a name the wrapper declares only when it has
\* decoded a String result)
StepReturn ==
    /\ InWrapper({"return"})
    /\ IF call.js_func_result.t = "undeclared"
       THEN Throw("ReferenceError", <<>>)
       ELSE /\ call' = [call EXCEPT !.status = "returned", !.ret = call.js_func_result]
            /\ events' = events
    /\ UNCHANGED <<clsVars, genVars, instVars, hlpVars, stack>>

\* the call is over: the caller has its value or its exception, and the
\* instance has taken back the memory of the call
Complete ==
    /\ loaded /\ call.status \in {"returned", "thrown"}
    /\ stack = <<>>
    /\ call' = Idle
    /\ events' = <<>>
    /\ mem' = ZeroMem
    /\ brk' = HeapBase
    /\ UNCHANGED <<clsVars, genVars, loaded, hooks, hlpVars, stack>>

Next ==
    \/ Preprocess \/ ExportFuncs \/ Finish
    \/ Load \/ CallBinding \/ DirectCall
    \/ StepEncode \/ StepArg \/ StepCall \/ StepReadWord \/ StepDecode
    \/ StepPost \/ StepReturn \/ Complete

Spec == Init /\ [][Next]_vars

----------------------------------------------------------------------------
(* SpecHost: the module of a world with an imported interface at run time.  *)
(* The instance was given the host's functions in its import object, so an  *)
(* export may call one while it runs, and a host function is free to call a *)
(* binding of the module.  The wrapper has no guard against that.           *)
(* SpecHost starts where generation ended: the source emitted by            *)
(* preprocess, import_interface and export_funcs has been pushed by finish. *)

RECURSIVE ImportsSource(_, _)
ImportsSource(is, i) ==
    IF i > Len(is) THEN <<>>
    ELSE ImportChunks(is[i].name, is[i].functions) \o ImportsSource(is, i + 1)

\* the source emitted for a world importing the interfaces is and exporting
\* the functions fs, none of which makes export_funcs panic
GeneratedSource(is, fs) ==
    << Chunk("preamble", ""), Chunk("let", "wasm_import_objects") >>
    \o ImportsSource(is, 1)
    \o << Chunk("let", "wasm_instance") >> \o HelperChunks(fs)
    \o [i \in 1..Len(fs) |-> BindingChunk(fs[i])]
    \o << ExportChunk(fs) >>

\* the imports of the world of SpecHost: one interface of two functions
HostWorldImports == << [name |-> IfaceName(1), functions |-> <<"f", "g">>] >>

InitHost ==
    /\ \E k \in 1..MaxFuncs : \E ps \in [1..k -> WrapParamLists], rs \in [1..k -> WrapResults] :
          /\ FirstPanic(ExportSet(k, ps, rs)) = 0
          /\ funcs = ExportSet(k, ps, rs)
          /\ src = GeneratedSource(HostWorldImports, ExportSet(k, ps, rs))
    /\ files = <<src>>
    /\ ifaces = HostWorldImports
    /\ phase = "finished"
    /\ sig = NoSig /\ cls = "Unclassified"
    /\ loaded = FALSE /\ hooks = {} /\ mem = <<>> /\ brk = 0
    /\ call = NoCall /\ events = <<>> /\ stack = <<>> /\ helper = NoHelper

\* the export invoked by the wrapper (the call statement of lines 305-309)
\* calls an imported host function, which calls a binding of the module
\* before it returns
ImportCallsBack ==
    /\ InWrapper({"call"})
    /\ \E i \in 1..Len(ifaces) : ifaces[i].functions # <<>>
    /\ Len(stack) < MaxDepth
    /\ \A i \in 1..Len(events) : events[i].e # "import"
    /\ stack' = Append(stack, [call |-> call, events |-> events])
    /\ \E i \in 1..Len(funcs) : \E args \in ArgLists(funcs[i].params) :
          call' = Frame(1, "running", i, args)
    /\ events' = <<>>
    /\ UNCHANGED <<clsVars, genVars, instVars, hlpVars>>

\* the binding called by the host function has returned or thrown; the host
\* function returns to the export, which goes on
ReturnToExport ==
    /\ loaded /\ call.status \in {"returned", "thrown"}
    /\ stack # <<>>
    /\ call' = stack[Len(stack)].call
    /\ events' = Append(stack[Len(stack)].events, Event("import", "", <<>>))
    /\ stack' = SubSeq(stack, 1, Len(stack) - 1)
    /\ UNCHANGED <<clsVars, genVars, instVars, hlpVars>>

NextHost ==
    \/ Load \/ CallBinding \/ DirectCall
    \/ StepEncode \/ StepArg \/ StepCall \/ StepReadWord \/ StepDecode
    \/ StepPost \/ StepReturn \/ Complete
    \/ ImportCallsBack \/ ReturnToExport

SpecHost == InitHost /\ [][NextHost]_vars

----------------------------------------------------------------------------
(* Properties of the generator and of the emitted module.                   *)

Over == loaded /\ call.status \in {"returned", "thrown"}

EventsOf(kind) == {i \in 1..Len(events) : events[i].e = kind}

\* chunks of the emitted source of a kind and name
ChunksOf(kinds, name) ==
    {i \in 1..Len(src) : src[i].k \in kinds /\ src[i].name = name}

\* the call in progress is a call of a generated wrapper whose String
\* arguments are all texts, and the underlying export has been invoked
WrapperCallReachedExport ==
    /\ Over
    /\ BindingOf(Func.name).k = "wrapper"
    /\ EventsOf("export") # {}
    /\ call.err # "RuntimeError"

TextArguments ==
    \A i \in 1..Len(Func.params) : Func.params[i] = "String" => call.args[i].t = "string"

\* C2: a function classified Scalar is bound directly to the underlying
\* export: no wrapper is emitted for it, and a call through the binding only
\* invokes the export, with the caller's arguments, and returns its value;
\* no helper runs and the allocator is not asked for anything.
C2_ScalarDirectBinding ==
    /\ phase \in {"exported", "finished"} =>
          \A i \in 1..Len(funcs) : AllScalar(funcs[i]) =>
              /\ Cardinality(ChunksOf({"direct"}, funcs[i].name)) = 1
              /\ ChunksOf({"wrapper", "partial_wrapper"}, funcs[i].name) = {}
    /\ (loaded /\ call.status # "idle" /\ AllScalar(Func)) =>
          /\ \A i \in 1..Len(events) : events[i].e = "export"
          /\ call.status = "returned" =>
                /\ Len(events) = 1
                /\ events[1].f = Func.name
                /\ events[1].v = [i \in 1..Len(call.args) |-> ToInt32(call.args[i])]

\* a call of the direct binding of add(x: s32) -> s32 has returned 42
C2_Witness ==
    /\ loaded /\ call.status = "returned"
    /\ Func.params = <<"S32">> /\ Func.results = Anon("S32")
    /\ BindingOf(Func.name).k = "direct"
    /\ call.ret = Num(42)
    /\ Len(events) = 1

\* the flattened arguments the claim C3 expects for the call in progress:
\* one slot per scalar, (pointer, length) per String, where the UTF-8 bytes
\* of the text lie at the pointer (the pointer is 1 for the empty text)
RECURSIVE Flattened(_)
Flattened(i) ==
    IF i > Len(Func.params) THEN <<>>
    ELSE (IF Func.params[i] = "String"
          THEN <<call.enc[i][1], call.enc[i][2]>>
          ELSE <<ToInt32(call.args[i])>>) \o Flattened(i + 1)

EncodedInPlace ==
    \A i \in 1..Len(Func.params) : Func.params[i] = "String" =>
        LET bytes == TextEncoder_encode(call.args[i].v)
        IN  /\ call.enc[i][2] = Len(bytes)
            /\ IF bytes = <<>> THEN call.enc[i][1] = 1
               ELSE /\ InBounds(call.enc[i][1], Len(bytes))
                    /\ Bytes(mem, call.enc[i][1], Len(bytes)) = bytes

\* C3: a call of the wrapper of a Marshaled function with scalar and String
\* parameters invokes the underlying export exactly once, with the flattened
\* arguments in declaration order: one slot per scalar, (pointer, length) per
\* String, pointer first.
C3_FlattenedCall ==
    (Over /\ BindingOf(Func.name).k = "wrapper" /\ TextArguments
          /\ call.err \notin {"RuntimeError"}) =>
        /\ Cardinality(EventsOf("export")) = 1
        /\ \A i \in EventsOf("export") :
              /\ events[i].f = Func.name
              /\ events[i].v = Flattened(1)
        /\ EncodedInPlace

\* the unsigned little-endian word of memory at off
Word(off) == mem[off] + 256 * mem[off + 1] + 65536 * mem[off + 2] + 16777216 * mem[off + 3]

\* C4: the wrapper of a function with a single String result reads the
\* little-endian words at r and r+4, r being the value the export returned,
\* as data pointer and byte length, and returns the UTF-8 decoding of exactly
\* that range of memory.
C4_StringResultLifted ==
    (WrapperCallReachedExport /\ Func.results = Anon("String")) =>
        LET r == ToInt32(call.wasm_func_result)
        IN  /\ call.status = "returned"
            /\ call.ret = Str(TextDecoder_decode(Bytes(mem, Word(r), Word(r + 4))))

\* C5: the wrapper of a Marshaled function with a single scalar result
\* returns to its caller exactly the value the underlying export returned.
C5_ScalarResultReturned ==
    (WrapperCallReachedExport /\ Func.results = Anon("S32")) =>
        /\ call.status = "returned"
        /\ call.ret = call.wasm_func_result

\* C6: in a call of the wrapper of a function returning a single string the
\* release hook cabi_post_<f> is invoked exactly once if the instance exports
\* it and not at all otherwise, after the result was decoded and before the
\* wrapper returns the decoded text.
C6_ReleaseHookOnce ==
    (WrapperCallReachedExport /\ Func.results = Anon("String")) =>
        /\ Cardinality(EventsOf("post")) = (IF Func.name \in hooks THEN 1 ELSE 0)
        /\ \A i \in EventsOf("post") : \E j \in EventsOf("decode") : j < i

\* the identifiers the emitted source declares
DeclaredIn(chunks) ==
    {chunks[i].name : i \in {j \in 1..Len(chunks) : chunks[j].k \in {"const", "function", "let"}}}

\* C7: the emitted module defines every helper and captured handle its
\* wrappers use: the encode helper with the allocator and encoder handles if
\* any exported function has a String parameter, the decode helper with the
\* decoder and memory handles if any has a String result, in whatever order
\* the functions come.
C7_HelpersEmitted ==
    phase \in {"exported", "finished"} =>
        /\ (\E i \in 1..Len(funcs) : HasStringParam(funcs[i])) =>
              {"wasm_wrapper_encode_str", "wasm_export_realloc",
               "wasm_wrapper_text_encoder", "wasm_export_memory"} \subseteq DeclaredIn(src)
        /\ (\E i \in 1..Len(funcs) : HasStringResult(funcs[i])) =>
              {"wasm_wrapper_decode_str", "wasm_wrapper_text_decoder",
               "wasm_export_memory"} \subseteq DeclaredIn(src)


\* With the helpers of C7 in place the calls behave as C3, C4 and C6 say:
\* their failures have no other cause than the missing helpers.
HelpersInPlace ==
    /\ (\E i \in 1..Len(funcs) : HasStringParam(funcs[i])) =>
          "wasm_wrapper_encode_str" \in DeclaredIn(src)
    /\ (\E i \in 1..Len(funcs) : HasStringResult(funcs[i])) =>
          "wasm_wrapper_decode_str" \in DeclaredIn(src)

FlattenedCallWithHelpers     == HelpersInPlace => C3_FlattenedCall
StringResultWithHelpers      == HelpersInPlace => C4_StringResultLifted
ReleaseHookOnceWithHelpers   == HelpersInPlace => C6_ReleaseHookOnce

\* a signature the wrapper path cannot flatten: a parameter that is neither
\* scalar nor String, a single result that is neither, or named results
CannotFlatten(func) ==
    \/ \E i \in 1..Len(func.params) : func.params[i] \notin ScalarTypes \cup {"String"}
    \/ func.results.kind = "Anon" /\ func.results.tys[1] \notin ScalarTypes \cup {"String"}
    \/ func.results.kind = "Named"

\* chunks of an output file that are a wrapper, whole or cut short, of name
WrappersIn(file, name) ==
    {c \in 1..Len(file) : file[c].k \in {"wrapper", "partial_wrapper"} /\ file[c].name = name}

\* C12: when the export set handed to export_funcs holds a Marshaled function
\* the wrapper path cannot flatten, generation has aborted (the generator is
\* in no other state than the panic) and no output file holds a wrapper of that
\* function, whole or partial.
C12_UnsupportedAborts ==
    \A i \in 1..Len(funcs) :
        (~AllScalar(funcs[i]) /\ CannotFlatten(funcs[i])) =>
            /\ phase = "panicked"
            /\ \A j \in 1..Len(files) : WrappersIn(files[j], funcs[i].name) = {}

\* generation aborted at the second function, with named results, after the
\* wrapper of the first was emitted whole; nothing was delivered
C12_Witness ==
    /\ phase = "panicked"
    /\ Len(funcs) = 2
    /\ funcs[1].params = <<"String">> /\ funcs[1].results = Anon("String")
    /\ funcs[2].results = Named(<<"S32", "String">>)
    /\ ChunksOf({"wrapper"}, "f1") # {}
    /\ ChunksOf({"partial_wrapper"}, "f2") # {}
    /\ files = <<>>

\* export_funcs was called and ran to its end
ExportFuncsCompleted == phase \in {"exported", "finished"} /\ funcs # <<>>

\* indices of the export statements of the emitted source
ExportStatements == {i \in 1..Len(src) : src[i].k = "export"}

ExpectedImports ==
    [I \in {ifaces[i].name : i \in 1..Len(ifaces)} |->
        LET fs == ifaces[CHOOSE i \in 1..Len(ifaces) : ifaces[i].name = I].functions
        IN  [f \in {fs[j] : j \in 1..Len(fs)} |-> HostFunction(I, f)]]

\* indices of the statements of the emitted source of the given kinds
StatementsOf(kinds) == {i \in 1..Len(src) : src[i].k \in kinds}

Instantiations == {i \in StatementsOf({"let"}) : src[i].name = "wasm_instance"}
OuterCreations == {i \in StatementsOf({"let"}) : src[i].name = "wasm_import_objects"}

InWrapperCall == loaded /\ call.status # "idle" /\ BindingOf(Func.name).k = "wrapper"

\* C16: in every execution of a generated wrapper the steps come in the
\* order allocate, write, call, read result, release: every allocator request
\* and every write made to lower the parameters precedes the one invocation
\* of the export, every read of the result area follows it, and the release
\* hook runs after the last read, so nothing is read through the result
\* pointer once it was released.
C16_StepOrder ==
    InWrapperCall =>
        /\ Cardinality(EventsOf("export")) <= 1
        /\ \A i \in EventsOf("alloc") \cup EventsOf("write") :
              \A j \in EventsOf("export") \cup EventsOf("read") \cup EventsOf("decode")
                        \cup EventsOf("post") : i < j
        /\ \A i \in EventsOf("write") :
              \E a \in EventsOf("alloc") : a < i /\ events[a].v[3] = events[i].v[1]
        /\ \A i \in EventsOf("read") \cup EventsOf("decode") \cup EventsOf("post") :
              \E j \in EventsOf("export") : j < i
        /\ \A i \in EventsOf("read") \cup EventsOf("decode") :
              \A r \in EventsOf("post") : i < r
        /\ Cardinality(EventsOf("post")) <= 1

\* a wrapper has run all five steps: it allocated and wrote its text
\* argument, called the export, read and decoded the result, ran the hook
C16_Witness ==
    /\ InWrapperCall
    /\ call.status = "returned"
    /\ Func.name \in hooks
    /\ [i \in 1..Len(events) |-> events[i].e]
          = <<"alloc", "write", "export", "read", "read", "decode", "post">>

\* the first String parameter of the call in progress that was passed a
\* value that is not a text (0 if there is none)
FirstNonText ==
    IF TextArguments THEN 0
    ELSE CHOOSE i \in 1..Len(Func.params) :
            /\ Func.params[i] = "String" /\ call.args[i].t # "string"
            /\ \A j \in 1..(i - 1) : Func.params[j] = "String" => call.args[j].t = "string"

\* C17: when a value that is not a text is passed for a String parameter, the
\* wrapper call ends with the TypeError thrown by the encode helper: no
\* allocation was requested for that value (the only requests are those of
\* the non-empty texts before it), and neither the underlying export nor the
\* release hook was invoked.
C17_NonTextRejected ==
    (Over /\ BindingOf(Func.name).k = "wrapper" /\ ~TextArguments) =>
        /\ call.status = "thrown"
        /\ call.err = "TypeError"
        /\ Cardinality(EventsOf("alloc"))
              = Cardinality({j \in 1..(FirstNonText - 1) :
                                Func.params[j] = "String" /\ call.args[j].v # <<>>})
        /\ EventsOf("export") = {}
        /\ EventsOf("post") = {}

\* what does hold: with the helpers of C7 in place the call ends as C17 says
NonTextRejectedWithHelpers == HelpersInPlace => C17_NonTextRejected

\* the allocator requests and release hooks logged by a call
Requests(ev) == {i \in 1..Len(ev) : ev[i].e = "alloc"}
Releases(ev) == {i \in 1..Len(ev) : ev[i].e = "post"}

\* C18: a marshaled call is one atomic unit of memory ownership: between its
\* first allocator request and its release hook no other call into the same
\* instance issues an allocator request.  A suspended call that has asked the
\* allocator and not yet run its hook is in that interval, so no call begun
\* after it may have asked the allocator.
C18_MarshaledCallAtomic ==
    \A k \in 1..Len(stack) :
        (Requests(stack[k].events) # {} /\ Releases(stack[k].events) = {}) =>
            /\ Requests(events) = {}
            /\ \A j \in (k + 1)..Len(stack) : Requests(stack[j].events) = {}

\* the states SpecHost starts from are those generation ends in: whatever
\* finish pushes after export_funcs is the source as GeneratedSource gives it
FinishedSourceIsGenerated ==
    (phase = "finished" /\ funcs # <<>>) => files = << GeneratedSource(ifaces, funcs) >>

====
